---- MODULE Spec2Model ----
(***************************************************************************)
(* Model of the travel planner chatbot backend                             *)
(*   src/travel_planner_chatbot.py : tool registry, chat graph, checkpoints *)
(*   src/flights_mcp.py            : the flight tool server                 *)
(*                                                                         *)
(* A turn is one invocation of the compiled graph `chatbot` for a          *)
(* thread id: the input message is merged into the thread's checkpointed    *)
(* state, then chat_node and the tools node alternate until the model      *)
(* answers without tool calls.  Every coroutine given to _submit_async runs *)
(* on the one event loop _ASYNC_LOOP, so several turns can be in flight;    *)
(* they interleave at their await points (model call, tool call).           *)
(***************************************************************************)
EXTENDS Integers, Sequences, FiniteSets, TLC

\* ------------------------------------------------------------------ bounds
\* Turns submitted in one behaviour.
MaxTurns == 2
\* The graph library's recursion limit, as the number of node executions
\* (super-steps: one chat_node or one tools execution each) that one invocation
\* of the graph may run.  The source passes none (line 169), so the library's
\* own default applies; the model keeps it small.
RecursionLimit == 3

\* Thread ids used by the callers, and the coroutines in flight on _ASYNC_LOOP.
Sessions == {1, 2}
Slots == {1, 2}

\* ------------------------------------------------------ the tool registry
Servers == {"hotel", "flight", "weather", "places"}
ServerOrder == <<"hotel", "flight", "weather", "places">>
\* Discovery outcomes at startup: the set of servers that cannot be reached.
DownCases == {{}} \cup {{srv} : srv \in Servers} \cup {Servers}

\* The tools each configured server publishes at discovery.
ServerTools(srv) ==
    CASE srv = "hotel"   -> <<"search_hotels">>
      [] srv = "flight"  -> <<"search_flights", "get_cheapest_flight">>
      [] srv = "weather" -> <<"get_weather_forecast">>
      [] srv = "places"  -> <<"search_tourism_destinations">>

\* What the servers publish when they run the configured programs.
Configured == [srv \in Servers |-> ServerTools(srv)]

RECURSIVE Concat(_)
Concat(seqs) ==
    IF seqs = <<>> THEN <<>> ELSE Head(seqs) \o Concat(Tail(seqs))

\* mcp_client.get_tools(): every server is asked; the answers are gathered, and
\* a failure of any one of them fails the whole call.
\* `pub` is what each server publishes when it is reached.
GetTools(down, pub) ==
    IF down # {} THEN [ok |-> FALSE, tools |-> <<>>]
    ELSE [ok |-> TRUE,
          tools |-> Concat([i \in 1..Len(ServerOrder) |-> pub[ServerOrder[i]]])]

\* load_mcp_tools(): the tools of get_tools(), or [] when it raised.
LoadMcpTools(down, pub) ==
    LET r == GetTools(down, pub) IN IF r.ok THEN r.tools ELSE <<>>

LocalTools == <<"duckduckgo_search", "build_itinerary">>

\* tools = [search_tool, build_itinerary, *mcp_tools]
AggregateTools(mcp) == LocalTools \o mcp

\* ToolNode(tools): the node's table from tool name to tool.  The tools are
\* entered in list order under their names, a later one taking the place of an
\* earlier one of the same name.
ToolsByName(reg) ==
    [n \in {reg[i] : i \in DOMAIN reg} |->
        CHOOSE i \in DOMAIN reg :
            reg[i] = n /\ \A j \in DOMAIN reg : reg[j] = n => j <= i]

ToolNames(reg) == {reg[i] : i \in DOMAIN reg}

\* ------------------------------------------------------- flight tool server
Raise == "raise"
None == "None"

\* Strings are sequences of characters.  str.lower() on the characters used.
Lower(str) ==
    [i \in DOMAIN str |->
        CASE str[i] = "A" -> "a"
          [] str[i] = "B" -> "b"
          [] OTHER -> str[i]]

\* str.strip(): leading and trailing blanks removed.
RECURSIVE Strip(_)
Strip(str) ==
    IF str = <<>> THEN <<>>
    ELSE IF Head(str) = " " THEN Strip(Tail(str))
    ELSE IF str[Len(str)] = " " THEN Strip(SubSeq(str, 1, Len(str) - 1))
    ELSE str

\* sub in str
Contains(sub, str) ==
    \E i \in 0..(Len(str) - Len(sub)) : SubSeq(str, i + 1, i + Len(sub)) = sub

\* airport_score(item) for the query of the lookup.
airport_score(item, query) ==
    (IF Contains(query, Lower(item.title)) THEN 5 ELSE 0)
    + (IF Contains(query, Lower(item.suggestionTitle)) THEN 5 ELSE 0)
    + (IF item.entityType = "AIRPORT" THEN 2 ELSE 0)

\* A descending sort that puts an item before the items of equal score.
RECURSIVE sorted_reverse_unstable(_, _)
sorted_reverse_unstable(data, query) ==
    IF data = <<>> THEN <<>>
    ELSE LET front == sorted_reverse_unstable(SubSeq(data, 1, Len(data) - 1), query)
             item == data[Len(data)]
             before == {i \in DOMAIN front :
                           airport_score(front[i], query) > airport_score(item, query)}
             n == Cardinality(before)
         IN SubSeq(front, 1, n) \o <<item>> \o SubSeq(front, n + 1, Len(front))

\* sorted(data, key=airport_score, reverse=True): descending by score; the
\* sort is stable, and reverse=True keeps items of equal score in the order
\* they have in data.
RECURSIVE sorted_reverse(_, _)
sorted_reverse(data, query) ==
    IF data = <<>> THEN <<>>
    ELSE LET front == sorted_reverse(SubSeq(data, 1, Len(data) - 1), query)
             item == data[Len(data)]
             before == {i \in DOMAIN front :
                           airport_score(front[i], query) >= airport_score(item, query)}
             n == Cardinality(before)
         IN SubSeq(front, 1, n) \o <<item>> \o SubSeq(front, n + 1, Len(front))

\* get_airport_code(location), given what the lookup service does: requests.get
\* is outside the try, so a transport failure raises; an unparseable body or
\* an empty data list gives None; else the skyId of the first item of the
\* sorted list.
GetAirportCode(location, response) ==
    CASE response.kind = "network_error" -> Raise
      [] response.kind = "unparseable"   -> None
      [] response.kind = "json" ->
            IF response.data = <<>> THEN None
            ELSE sorted_reverse(response.data, Strip(Lower(location)))[1].skyId

\* The lookups followed inside a turn: the places asked for, and what the
\* lookup service does for one query.
Origin == <<"a">>
Destination == <<"b">>
LookupCases ==
    {[kind |-> "network_error", data |-> <<>>],
     [kind |-> "unparseable", data |-> <<>>],
     [kind |-> "json", data |-> <<>>],
     [kind |-> "json",
      data |-> <<[title |-> <<"A", "b">>, suggestionTitle |-> <<"a">>,
                  entityType |-> "AIRPORT", skyId |-> "X"]>>]}

\* What the flight offer backend does for one search.
OfferKinds == {"response_error", "malformed_offer", "offers"}

\* search_flights / get_cheapest_flight: the two lookups run before the try;
\* inside it only ResponseError is caught (-> {"error": ...}); indexing a
\* malformed offer raises KeyError/IndexError, which is not caught.
\* Result: "exception" (escapes the function), "error_value", "result".
SearchFlights(lo, ld, offer) ==
    IF GetAirportCode(Origin, lo) = Raise \/ GetAirportCode(Destination, ld) = Raise
    THEN "exception"
    ELSE CASE offer = "response_error"  -> "error_value"
           [] offer = "malformed_offer" -> "exception"
           [] offer = "offers"          -> "result"

\* ------------------------------------------------------------------ messages
NoId == <<>>
NoCall == <<>>

HumanMessage ==
    [id |-> NoId, role |-> "user", name |-> "", calls |-> <<>>,
     tool_call_id |-> NoCall, status |-> "success", content |-> "text"]

\* The model's response: an assistant message asking for the tools `names`
\* (possibly none); the backend gives the message and each call an id.
AIMessage(mid, names) ==
    [id |-> mid, role |-> "assistant", name |-> "",
     calls |-> [k \in 1..Len(names) |-> [id |-> <<mid, k>>, name |-> names[k]]],
     tool_call_id |-> NoCall, status |-> "success", content |-> "text"]

\* A tool result for the call `call`; content is what the tool produced:
\* "result", "error_value" (a value that reports an error, as {"error": ...}),
\* "exception" (the tool raised) or "invalid_tool" (no such tool).
ToolMessage(call, content) ==
    [id |-> NoId, role |-> "tool", name |-> call.name, calls |-> <<>>,
     tool_call_id |-> call.id,
     status |-> IF content \in {"exception", "invalid_tool"} THEN "error" ELSE "success",
     content |-> content]

\* The messages of `right` as they enter a state: those without id get the
\* fresh ids <<slot, n>>, <<slot, n + 1>>, ...
WithIds(right, slot, n) ==
    [k \in 1..Len(right) |->
        IF right[k].id = NoId THEN [right[k] EXCEPT !.id = <<slot, n + k - 1>>]
        ELSE right[k]]

IndexOfId(msgs, mid) ==
    IF \E i \in DOMAIN msgs : msgs[i].id = mid
    THEN CHOOSE i \in DOMAIN msgs : msgs[i].id = mid
    ELSE 0

\* add_messages(left, right): a message of `right` without id gets a fresh one;
\* a message whose id is already in `left` replaces that message in place, any
\* other is appended.  `slot` and `n` make the fresh ids (uuid4 in the source).
RECURSIVE add_messages(_, _, _, _)
add_messages(left, right, slot, n) ==
    IF right = <<>> THEN left
    ELSE LET m0 == Head(right)
             m  == IF m0.id = NoId THEN [m0 EXCEPT !.id = <<slot, n>>] ELSE m0
             at == IndexOfId(left, m.id)
             merged == IF at = 0 THEN Append(left, m)
                       ELSE [left EXCEPT ![at] = m]
         IN add_messages(merged, Tail(right), slot, n + 1)

\* A routing that always goes to the tools node.
tools_condition_always(msgs) == "tools"

\* tools_condition: "tools" when the last message asks for tool calls, else END.
tools_condition(msgs) ==
    IF Len(msgs) > 0 /\ Len(msgs[Len(msgs)].calls) > 0 THEN "tools" ELSE "END"

\* --------------------------------------------------------------------- state
VARIABLES
    down,       \* the servers that failed discovery at startup
    published,  \* server -> the tool names it publishes when reached
    tools,      \* the registry: tool names in list order
    store,      \* thread id -> messages of the thread's latest checkpoint
    pc,         \* slot -> "idle", "chat_node", "tools", "done", "failed", "crashed"
    sess,       \* slot -> thread id of its turn
    loaded,     \* slot -> the history the turn loaded when it started
    msgs,       \* slot -> the turn's ChatState.messages
    steps,      \* slot -> super-steps run in this turn
    visits,     \* slot -> chat_node executions in this turn
    phases,     \* slot -> tools-node executions in this turn
    results,    \* slot -> call index -> content, for the calls that finished
    order,      \* slot -> call indices in the order they finished
    err,        \* slot -> the exception the turn ended with, or "none"
    seq,        \* slot -> next fresh message id of the slot
    atFail,     \* slot -> the thread's stored history when the model call failed
    marks,      \* slot -> lengths of the states this turn has checkpointed
    rows,       \* thread id -> checkpoint rows written for the thread
    log,        \* thread id -> the messages appended to the thread, in order
    turns,      \* turns submitted so far
    airport     \* flight server: one call of get_airport_code, input and result

vars == <<down, published, tools, store, pc, sess, loaded, msgs, steps, visits, phases,
          results, order, err, seq, atFail, marks, rows, log, turns, airport>>

\* The tool-call lists a model response can carry.
Responses ==
    {<<>>, <<"build_itinerary", "search_flights">>}

\* No turn has been submitted.
TurnsInit ==
    /\ store = [s \in Sessions |-> <<>>]
    /\ pc = [t \in Slots |-> "idle"]
    /\ sess = [t \in Slots |-> 1]
    /\ loaded = [t \in Slots |-> <<>>]
    /\ msgs = [t \in Slots |-> <<>>]
    /\ steps = [t \in Slots |-> 0]
    /\ visits = [t \in Slots |-> 0]
    /\ phases = [t \in Slots |-> 0]
    /\ results = [t \in Slots |-> <<>>]
    /\ order = [t \in Slots |-> <<>>]
    /\ err = [t \in Slots |-> "none"]
    /\ seq = [t \in Slots |-> 1]
    /\ atFail = [t \in Slots |-> <<>>]
    /\ marks = [t \in Slots |-> <<>>]
    /\ rows = [s \in Sessions |-> 0]
    /\ log = [s \in Sessions |-> <<>>]
    /\ turns = 0

\* No call of get_airport_code is followed.
NoLookup ==
    [location |-> <<>>, response |-> [kind |-> "unparseable", data |-> <<>>],
     called |-> FALSE, code |-> None]

\* The chatbot process after module initialisation, the servers running the
\* configured programs.
Init ==
    /\ down \in DownCases
    /\ published = Configured
    /\ tools = AggregateTools(LoadMcpTools(down, published))
    /\ TurnsInit
    /\ airport = NoLookup

InFlight(t) == pc[t] \in {"chat_node", "tools"}

\* Every turn writing to one and the same thread.
ThreadOfShared(t) == 1

\* The thread a turn's checkpoints are written to: the thread id of the
\* configuration the graph was invoked with.
ThreadOf(t) == sess[t]

\* A graph run without recursion limit.
NextNodeUnbounded(node, stepsRun) ==
    IF node = "END" THEN [pc |-> "done", err |-> "none"]
    ELSE [pc |-> node, err |-> "none"]

\* After a super-step: the node to run next, unless the recursion limit is
\* used up while a node is still due.
NextNode(node, stepsRun) ==
    IF node = "END" THEN [pc |-> "done", err |-> "none"]
    ELSE IF stepsRun >= RecursionLimit
         THEN [pc |-> "failed", err |-> "GraphRecursionError"]
         ELSE [pc |-> node, err |-> "none"]

\* A caller submits chatbot.ainvoke({"messages": [HumanMessage]}, thread s):
\* the thread's latest checkpoint is loaded, the input is merged into it and
\* checkpointed, and chat_node is due.  Nothing looks at turns in flight.
\* (The coroutine takes the lowest free slot and a new thread the lowest unused
\* id: slots and thread ids are interchangeable.)
StartTurn(t, s) ==
    /\ ~InFlight(t)
    /\ \A u \in Slots : u < t => InFlight(u)
    /\ \A r \in Sessions : r < s => store[r] # <<>>
    /\ turns < MaxTurns
    /\ LET m == add_messages(store[s], <<HumanMessage>>, t, seq[t])
       IN /\ msgs' = [msgs EXCEPT ![t] = m]
          /\ store' = [store EXCEPT ![s] = m]
          /\ marks' = [marks EXCEPT ![t] = <<Len(m)>>]
    /\ rows' = [rows EXCEPT ![s] = @ + 1]
    /\ log' = [log EXCEPT ![s] = @ \o WithIds(<<HumanMessage>>, t, seq[t])]
    /\ loaded' = [loaded EXCEPT ![t] = store[s]]
    /\ sess' = [sess EXCEPT ![t] = s]
    /\ pc' = [pc EXCEPT ![t] = "chat_node"]
    /\ steps' = [steps EXCEPT ![t] = 0]
    /\ visits' = [visits EXCEPT ![t] = 0]
    /\ phases' = [phases EXCEPT ![t] = 0]
    /\ results' = [results EXCEPT ![t] = <<>>]
    /\ order' = [order EXCEPT ![t] = <<>>]
    /\ err' = [err EXCEPT ![t] = "none"]
    /\ seq' = [seq EXCEPT ![t] = @ + 1]
    /\ atFail' = [atFail EXCEPT ![t] = <<>>]
    /\ turns' = turns + 1
    /\ UNCHANGED <<airport, down, published, tools>>

\* chat_node: the model answers; the response is merged into the state, the
\* state is checkpointed and tools_condition picks the next node.
ChatNode(t, names) ==
    /\ pc[t] = "chat_node"
    /\ LET m == add_messages(msgs[t], <<AIMessage(<<t, seq[t]>>, names)>>, t, seq[t])
           nx == NextNode(tools_condition(m), steps[t] + 1)
       IN /\ msgs' = [msgs EXCEPT ![t] = m]
          /\ store' = [store EXCEPT ![ThreadOf(t)] = m]
          /\ pc' = [pc EXCEPT ![t] = nx.pc]
          /\ err' = [err EXCEPT ![t] = nx.err]
          /\ marks' = [marks EXCEPT ![t] = Append(@, Len(m))]
    /\ rows' = [rows EXCEPT ![sess[t]] = @ + 1]
    /\ log' = [log EXCEPT ![sess[t]] = @ \o <<AIMessage(<<t, seq[t]>>, names)>>]
    /\ steps' = [steps EXCEPT ![t] = @ + 1]
    /\ visits' = [visits EXCEPT ![t] = @ + 1]
    /\ seq' = [seq EXCEPT ![t] = @ + 1]
    /\ results' = [results EXCEPT ![t] = <<>>]
    /\ order' = [order EXCEPT ![t] = <<>>]
    /\ UNCHANGED <<airport, down, published, tools, sess, loaded, phases, atFail, turns>>

\* chat_node: llm_with_tools.ainvoke raises; nothing catches it, the invocation
\* of the graph ends with the exception and no checkpoint is written.
ChatNodeFail(t) ==
    /\ pc[t] = "chat_node"
    /\ pc' = [pc EXCEPT ![t] = "failed"]
    /\ err' = [err EXCEPT ![t] = "ModelUnavailable"]
    /\ visits' = [visits EXCEPT ![t] = @ + 1]
    /\ atFail' = [atFail EXCEPT ![t] = store[sess[t]]]
    /\ UNCHANGED <<airport, down, published, tools, store, sess, loaded, msgs, steps, phases,
                   results, order, seq, marks, rows, log, turns>>

\* The tools the prompt of build_itinerary tells the model to call, in order.
ItineraryTools ==
    <<"search_hotels", "get_weather_forecast", "search_tourism_destinations">>

\* build_itinerary: the prompt is given to the model in one invocation and the
\* response is returned as it is.  The function has no tools node: the tool
\* calls a response asks for are not run, whatever `response` is.  (The model
\* is taken to answer here.)
BuildItinerary(response) ==
    [executed |-> <<>>, content |-> "result"]

\* A tools node that runs the call without looking the name up.
ToolOutcomesUnchecked(reg, name) ==
    IF name \in {"search_flights", "get_cheapest_flight"}
    THEN {SearchFlights(lo, ld, offer) :
             lo \in LookupCases, ld \in LookupCases, offer \in OfferKinds}
    ELSE {"result"}

\* What the tool a call names can produce.  A name that is not in the registry
\* is answered by the tools node itself, without invoking anything; an
\* exception of a registered tool is caught by the tools node.  The flight
\* tools are followed through every answer of their two backends and
\* build_itinerary through every response of the model; the other tools are
\* taken to answer.
ToolOutcomes(reg, name) ==
    IF name \notin ToolNames(reg) THEN {"invalid_tool"}
    ELSE IF name \in {"search_flights", "get_cheapest_flight"}
         THEN {SearchFlights(lo, ld, offer) :
                  lo \in LookupCases, ld \in LookupCases, offer \in OfferKinds}
         ELSE IF name = "build_itinerary"
              THEN {BuildItinerary(r).content : r \in Responses}
              ELSE {"result"}

PendingCalls(t) == msgs[t][Len(msgs[t])].calls

\* tools node, one of its concurrently running calls finishes.
ToolFinish(t, i, content) ==
    /\ pc[t] = "tools"
    /\ i \in DOMAIN PendingCalls(t)
    /\ i \notin DOMAIN results[t]
    /\ content \in ToolOutcomes(tools, PendingCalls(t)[i].name)
    /\ results' = [results EXCEPT ![t] = (i :> content) @@ @]
    /\ order' = [order EXCEPT ![t] = Append(@, i)]
    /\ UNCHANGED <<airport, down, published, tools, store, pc, sess, loaded, msgs, steps, visits,
                   phases, err, seq, atFail, marks, rows, log, turns>>

\* Outputs collected in the order the calls finished.
ToolOutputsAsCompleted(calls, res, finished) ==
    [k \in 1..Len(calls) |-> ToolMessage(calls[finished[k]], res[finished[k]])]

\* The outputs of the tools node: one ToolMessage per call, in the order of the
\* calls of the assistant message.
ToolOutputs(calls, res, finished) ==
    [k \in 1..Len(calls) |-> ToolMessage(calls[k], res[k])]

\* tools node, all calls have finished: the outputs are merged into the state,
\* the state is checkpointed and chat_node is due again.
ToolsReturn(t) ==
    /\ pc[t] = "tools"
    /\ DOMAIN results[t] = DOMAIN PendingCalls(t)
    /\ LET out == ToolOutputs(PendingCalls(t), results[t], order[t])
           m == add_messages(msgs[t], out, t, seq[t])
           nx == NextNode("chat_node", steps[t] + 1)
       IN /\ msgs' = [msgs EXCEPT ![t] = m]
          /\ store' = [store EXCEPT ![ThreadOf(t)] = m]
          /\ pc' = [pc EXCEPT ![t] = nx.pc]
          /\ err' = [err EXCEPT ![t] = nx.err]
          /\ seq' = [seq EXCEPT ![t] = @ + Len(out)]
          /\ marks' = [marks EXCEPT ![t] = Append(@, Len(m))]
          /\ log' = [log EXCEPT ![sess[t]] = @ \o WithIds(out, t, seq[t])]
    /\ rows' = [rows EXCEPT ![sess[t]] = @ + 1]
    /\ steps' = [steps EXCEPT ![t] = @ + 1]
    /\ phases' = [phases EXCEPT ![t] = @ + 1]
    /\ UNCHANGED <<airport, down, published, tools, sess, loaded, visits, results, order, atFail,
                   turns>>

Next ==
    \/ \E t \in Slots, s \in Sessions : StartTurn(t, s)
    \/ \E t \in Slots, names \in Responses : ChatNode(t, names)
    \/ \E t \in Slots : ChatNodeFail(t)
    \/ \E t \in Slots, i \in 1..2, c \in {"result", "error_value", "exception", "invalid_tool"} :
          ToolFinish(t, i, c)
    \/ \E t \in Slots : ToolsReturn(t)

\* Callers that use submit_async_task: a turn is scheduled whatever is in flight.
Spec == Init /\ [][Next]_vars

\* A caller that uses run_async: it blocks on the turn's result, so it submits
\* the next message only when the turn before has ended.
StartTurnSync(t, s) ==
    /\ \A u \in Slots : ~InFlight(u)
    /\ StartTurn(t, s)

NextSerial ==
    \/ \E t \in Slots, s \in Sessions : StartTurnSync(t, s)
    \/ \E t \in Slots, names \in Responses : ChatNode(t, names)
    \/ \E t \in Slots : ChatNodeFail(t)
    \/ \E t \in Slots, i \in 1..2, c \in {"result", "error_value", "exception", "invalid_tool"} :
          ToolFinish(t, i, c)
    \/ \E t \in Slots : ToolsReturn(t)

SpecSerial == Init /\ [][NextSerial]_vars

\* One caller per thread id, each using run_async: turns of different threads
\* overlap on _ASYNC_LOOP, the turns of one thread follow each other.
StartTurnThread(t, s) ==
    /\ \A u \in Slots : InFlight(u) => sess[u] # s
    /\ StartTurn(t, s)

NextThreads ==
    \/ \E t \in Slots, s \in Sessions : StartTurnThread(t, s)
    \/ \E t \in Slots, names \in Responses : ChatNode(t, names)
    \/ \E t \in Slots : ChatNodeFail(t)
    \/ \E t \in Slots, i \in 1..2, c \in {"result", "error_value", "exception", "invalid_tool"} :
          ToolFinish(t, i, c)
    \/ \E t \in Slots : ToolsReturn(t)

SpecThreads == Init /\ [][NextThreads]_vars

\* The process dies while the turn of slot t is in flight, and is started again.
\* The checkpointer is handed each state when its step has completed, and the
\* graph is compiled with the library's default durability (line 169: no
\* durability is given), under which the write runs in the background, behind
\* the writes before it, while the next step executes.  So the database holds
\* the first `keep` checkpoints of the turn: all of them, or all but the ones
\* still queued.  The restart imports the module again: discovery runs again.
Crash(t, keep) ==
    /\ InFlight(t)
    /\ \A u \in Slots \ {t} : ~InFlight(u)
    /\ keep \in 0..Len(marks[t])
    /\ store' = [store EXCEPT ![sess[t]] =
                    IF keep = 0 THEN loaded[t] ELSE SubSeq(msgs[t], 1, marks[t][keep])]
    /\ rows' = [rows EXCEPT ![sess[t]] = @ - (Len(marks[t]) - keep)]
    /\ pc' = [pc EXCEPT ![t] = "crashed"]
    /\ err' = [err EXCEPT ![t] = "none"]
    /\ down' \in DownCases
    /\ tools' = AggregateTools(LoadMcpTools(down', published))
    /\ UNCHANGED <<airport, published, sess, loaded, msgs, steps, visits, phases, results,
                   order, seq, atFail, marks, log, turns>>

NextCrash ==
    \/ \E t \in Slots, s \in Sessions : StartTurnSync(t, s)
    \/ \E t \in Slots, names \in Responses : ChatNode(t, names)
    \/ \E t \in Slots : ChatNodeFail(t)
    \/ \E t \in Slots, i \in 1..2, c \in {"result", "error_value", "exception", "invalid_tool"} :
          ToolFinish(t, i, c)
    \/ \E t \in Slots : ToolsReturn(t)
    \/ \E t \in Slots, keep \in 0..(RecursionLimit + 1) : Crash(t, keep)

\* A run_async caller and a process that can die during a turn.
SpecCrash == Init /\ [][NextCrash]_vars

\* ---------------------------------------------- building the registry alone
\* What a server can publish: the tools of its configured program, or these and
\* one more tool under a name that is in use.  The servers are separate
\* programs, and discovery takes the names as they come.
PublishCases(srv) ==
    {ServerTools(srv), ServerTools(srv) \o <<"search_hotels">>,
     ServerTools(srv) \o <<"build_itinerary">>}

\* Startup before the registry is built: which servers can be reached and
\* what they publish.
InitRegistry ==
    /\ down \in SUBSET Servers
    /\ published \in {pub \in [Servers -> UNION {PublishCases(srv) : srv \in Servers}] :
                          \A srv \in Servers : pub[srv] \in PublishCases(srv)}
    /\ tools = <<>>
    /\ TurnsInit
    /\ airport = NoLookup

\* Module initialisation: discovery, then tools = [search_tool,
\* build_itinerary, *mcp_tools] and ToolNode(tools).
BuildRegistry ==
    /\ tools = <<>>
    /\ tools' = AggregateTools(LoadMcpTools(down, published))
    /\ UNCHANGED <<airport, down, published, store, pc, sess, loaded, msgs,
                   steps, visits, phases, results, order, err, seq, atFail,
                   marks, rows, log, turns>>

NextRegistry == BuildRegistry

SpecRegistry == InitRegistry /\ [][NextRegistry]_vars

\* ------------------------------------------------- the airport lookup alone
\* Candidates in one lookup response.
MaxCandidates == 3

Locations == {<<"a">>, <<" ", "A", " ">>, <<"b">>}
Candidates ==
    [title : {<<"A", "b">>, <<"b">>}, suggestionTitle : {<<"a">>, <<>>},
     entityType : {"AIRPORT", "CITY"}, skyId : {"X", "Y"}]
RECURSIVE SeqsUpTo(_, _)
SeqsUpTo(S, n) ==
    IF n = 0 THEN {<<>>}
    ELSE LET shorter == SeqsUpTo(S, n - 1)
         IN shorter \cup {Append(q, x) : q \in {r \in shorter : Len(r) = n - 1}, x \in S}
LookupResponses ==
    {[kind |-> "network_error", data |-> <<>>], [kind |-> "unparseable", data |-> <<>>]}
    \cup {[kind |-> "json", data |-> d] : d \in SeqsUpTo(Candidates, MaxCandidates)}

\* The flight server is asked for the airport code of a location, and the
\* lookup service answers in one of the ways above.
InitAirport ==
    /\ down = {}
    /\ published = Configured
    /\ tools = AggregateTools(LoadMcpTools(down, published))
    /\ TurnsInit
    /\ airport \in [location : Locations, response : LookupResponses,
                    called : {FALSE}, code : {None}]

\* get_airport_code runs.
Lookup ==
    /\ ~airport.called
    /\ airport' = [airport EXCEPT
                      !.called = TRUE,
                      !.code = GetAirportCode(airport.location, airport.response)]
    /\ UNCHANGED <<down, published, tools, store, pc, sess, loaded, msgs, steps,
                   visits, phases, results, order, err, seq, atFail, marks, rows,
                   log, turns>>

NextAirport == Lookup

SpecAirport == InitAirport /\ [][NextAirport]_vars

\* -------------------------------------------------------------- thread list
\* checkpointer.alist(None): the thread id of every checkpoint row in the
\* database, one entry per row.
AlistThreadIds(table) ==
    Concat([s \in 1..Cardinality(Sessions) |-> [k \in 1..table[s] |-> s]])

\* The thread id of every row, repeated as often as the thread has rows.
alist_threads_every_row(ids) == {ids}

\* _alist_threads: the ids are collected in a set and list(set) is returned.
\* The order of that list is the iteration order of the set, which the code
\* does not fix (for string ids it changes from process to process): the
\* lists the call can return are all the orderings of the set.
alist_threads(ids) ==
    LET threads == {ids[i] : i \in DOMAIN ids}
    IN {q \in [1..Cardinality(threads) -> threads] :
           \A tid \in threads : \E i \in DOMAIN q : q[i] = tid}

\* The lists retrieve_all_threads can return in the current state.
retrieve_all_threads == alist_threads(AlistThreadIds(rows))

\* ------------------------------------------------------------------- claims
Last(m) == m[Len(m)]
IsPrefix(a, b) == Len(a) <= Len(b) /\ SubSeq(b, 1, Len(a)) = a

\* The turn of slot t has received the model's first response.
HasFirstResponse(t) == pc[t] # "idle" /\ Len(msgs[t]) >= Len(loaded[t]) + 2
FirstResponse(t) == msgs[t][Len(loaded[t]) + 2]

\* C1: a turn whose first model response asks for no tool call has ended DONE
\* after one chat_node visit and no tools-node visit, and the thread's stored
\* history is the history the turn loaded, the user message and that one
\* assistant message.
C1_NoToolCallTurn ==
    \A t \in Slots :
        (HasFirstResponse(t) /\ FirstResponse(t).calls = <<>>) =>
            /\ pc[t] = "done"
            /\ visits[t] = 1
            /\ phases[t] = 0
            /\ Len(msgs[t]) = Len(loaded[t]) + 2
            /\ SubSeq(msgs[t], 1, Len(loaded[t])) = loaded[t]
            /\ msgs[t][Len(loaded[t]) + 1].role = "user"
            /\ FirstResponse(t).role = "assistant"
            /\ store[sess[t]] = msgs[t]

C1_Witness ==
    \E t \in Slots :
        /\ pc[t] = "done" /\ visits[t] = 1 /\ phases[t] = 0
        /\ Len(loaded[t]) > 0
        /\ Len(store[sess[t]]) = Len(loaded[t]) + 2

LimitHit(t) == err[t] = "GraphRecursionError"

\* C2 as stated: a turn ended by the limit has run exactly the configured
\* maximum number of chat_node <-> tools cycles.
C2_Original ==
    \A t \in Slots : LimitHit(t) => phases[t] = RecursionLimit

\* C2 amended: the limit counts super-steps.  No turn runs more than
\* RecursionLimit of them; a turn that has run RecursionLimit super-steps and
\* is not DONE has ended with GraphRecursionError, after ceil(limit/2) model
\* invocations and floor(limit/2) tool phases, each model response having
\* asked for tools.
C2_LimitInSuperSteps ==
    \A t \in Slots :
        /\ steps[t] <= RecursionLimit
        /\ steps[t] = visits[t] + phases[t] \/ err[t] = "ModelUnavailable"
        /\ (steps[t] = RecursionLimit /\ pc[t] # "done") =>
               (pc[t] = "failed" /\ LimitHit(t))
        /\ LimitHit(t) =>
               /\ pc[t] = "failed"
               /\ steps[t] = RecursionLimit
               /\ visits[t] = (RecursionLimit + 1) \div 2
               /\ phases[t] = RecursionLimit \div 2

C2_Witness ==
    \E t \in Slots : LimitHit(t) /\ phases[t] >= 1 /\ visits[t] >= 2

\* Every assistant message of m that asks for tool calls is followed by one
\* tool message per call, in the order of the calls.
Answered(m, from) ==
    \A i \in DOMAIN m :
        (i >= from /\ Len(m[i].calls) > 0) =>
            \A k \in DOMAIN m[i].calls :
                /\ i + k <= Len(m)
                /\ m[i + k].role = "tool"
                /\ m[i + k].tool_call_id = m[i].calls[k].id

\* C3: the model is never invoked on a history in which a requested tool call
\* has no result message.
C3_Original ==
    \A t \in Slots : pc[t] = "chat_node" => Answered(msgs[t], 1)

\* Where a tool message follows an assistant message of m that asks for tool
\* calls, the results of all its calls follow it, in the order of the calls.
InRequestOrder(m) ==
    \A i \in DOMAIN m :
        (Len(m[i].calls) > 0 /\ i < Len(m) /\ m[i + 1].role = "tool") =>
            \A k \in DOMAIN m[i].calls :
                /\ i + k <= Len(m)
                /\ m[i + k].role = "tool"
                /\ m[i + k].tool_call_id = m[i].calls[k].id
                /\ m[i + k].name = m[i].calls[k].name

\* C4: the results of the calls [A, B] of an assistant message are appended in
\* the order A, B, whatever order the calls finished in: when the tools node
\* has returned, the last messages of the turn's state are the results of the
\* calls of the message before them, call by call, and tool results stand in
\* request order in every turn state and every stored history.
C4_ResultsInRequestOrder ==
    /\ \A s \in Sessions : InRequestOrder(store[s])
    /\ \A t \in Slots :
          /\ InRequestOrder(msgs[t])
          /\ (pc[t] \in {"chat_node", "failed"} /\ order[t] # <<>>) =>
                LET n == Len(order[t])
                    at == Len(msgs[t]) - n
                IN /\ at >= 1
                   /\ Len(msgs[t][at].calls) = n
                   /\ \A k \in 1..n :
                         /\ msgs[t][at + k].role = "tool"
                         /\ msgs[t][at + k].tool_call_id = msgs[t][at].calls[k].id

C4_Witness ==
    \E t \in Slots :
        /\ pc[t] = "chat_node" /\ phases[t] = 1
        /\ order[t] = <<2, 1>>
        /\ LET n == Len(msgs[t]) IN
              /\ msgs[t][n - 2].calls # <<>>
              /\ msgs[t][n - 1].tool_call_id = msgs[t][n - 2].calls[1].id
              /\ msgs[t][n].tool_call_id = msgs[t][n - 2].calls[2].id
              /\ store[sess[t]] = msgs[t]

\* C5: every step leaves each thread's stored history a prefix of the new one.
C5_Original ==
    [][\A s \in Sessions : IsPrefix(store[s], store'[s])]_vars

\* C6: no two turns of one thread are in flight at the same time.
C6_Original ==
    \A t, u \in Slots :
        (t # u /\ InFlight(t) /\ InFlight(u)) => sess[t] # sess[u]

\* C7: with exactly one server failing discovery, the registry holds the local
\* tools and the tools of every other server.
C7_Original ==
    Cardinality(down) = 1 =>
        ToolNames(tools) =
            ToolNames(LocalTools)
                \cup UNION {ToolNames(ServerTools(srv)) : srv \in Servers \ down}

\* C8: no failure of the airport lookup or of the flight-offer backend leaves
\* search_flights / get_cheapest_flight by an exception: their tool results
\* are values (a result or an {"error": ...} value).
C8_Original ==
    \A t \in Slots : \A i \in DOMAIN msgs[t] :
        (msgs[t][i].role = "tool"
            /\ msgs[t][i].name \in {"search_flights", "get_cheapest_flight"}
            /\ msgs[t][i].content # "invalid_tool")
        => msgs[t][i].content \in {"result", "error_value"}

\* C9: a turn that ended in failure has left an error message as the last
\* message of its thread's stored history.
C9_Original ==
    \A t \in Slots :
        pc[t] = "failed" =>
            LET h == store[sess[t]] IN
                /\ Len(h) > 0
                /\ Last(h).role = "assistant"
                /\ Last(h).content = "error_text"

\* C10: after the model invocation of a turn has failed, everything the thread
\* had stored at that moment stays in its stored history, in order.
C10_Original ==
    \A t \in Slots :
        (pc[t] = "failed" /\ err[t] = "ModelUnavailable") =>
            IsPrefix(atFail[t], store[sess[t]])
\* C11 as stated: when the process died during a turn, the history loaded
\* after the restart is a prefix of the history the turn had reached and holds
\* every message appended by the steps that had completed, that is, all of it.
C11_Original ==
    \A t \in Slots :
        pc[t] = "crashed" =>
            /\ IsPrefix(store[sess[t]], msgs[t])
            /\ IsPrefix(msgs[t], store[sess[t]])

\* C12 as stated: loading a thread returns exactly the messages appended to it,
\* in the order they were appended, nothing added, dropped or duplicated.
C12_Original ==
    \A s \in Sessions : store[s] = log[s]

\* C13: a thread id that has received no message loads an empty history and is
\* not listed by retrieve_all_threads; an id that has received a message is
\* listed exactly once, however many checkpoints were written for it; the
\* listed ids are exactly the ids that have received a message.  This holds of
\* every list the call can return.
C13_ThreadListing ==
    \A listed \in retrieve_all_threads :
       /\ \A s \in Sessions :
            log[s] = <<>> =>
                /\ store[s] = <<>>
                /\ \A i \in DOMAIN listed : listed[i] # s
       /\ \A s \in Sessions :
            log[s] # <<>> => Cardinality({i \in DOMAIN listed : listed[i] = s}) = 1
       /\ {listed[i] : i \in DOMAIN listed} = {s \in Sessions : log[s] # <<>>}

\* One thread has several checkpoint rows and is listed once, the other has
\* received nothing and is not listed.
C13_Witness ==
    /\ rows[1] >= 3
    /\ log[2] = <<>>
    /\ retrieve_all_threads = {<<1>>}

\* C14: when turns of different threads run concurrently, each thread's stored
\* history is exactly the messages appended to that thread, in the order they
\* were appended, and it is the state of the thread's own turn: no step of a
\* turn of one thread changes the history of another thread.
C14_ThreadIsolation ==
    /\ \A s \in Sessions : store[s] = log[s]
    /\ \A t \in Slots : InFlight(t) => store[sess[t]] = msgs[t]
    /\ \A t, u \in Slots :
          (InFlight(t) /\ InFlight(u) /\ t # u) =>
              \A i \in DOMAIN msgs[t], j \in DOMAIN msgs[u] : msgs[t][i].id # msgs[u][j].id

\* Two turns of different threads are in flight together, each past its first
\* model response.
C14_Witness ==
    /\ pc[1] = "tools" /\ pc[2] = "tools"
    /\ sess[1] # sess[2]
    /\ Len(store[1]) >= 2 /\ Len(store[2]) >= 2

\* The last thing appended to thread s is a final answer: its latest turn has
\* reached DONE and no user message has followed.
AtDone(s) ==
    /\ log[s] # <<>>
    /\ Last(log[s]).role = "assistant"
    /\ Last(log[s]).calls = <<>>

\* Slot t invokes the model or completes a tool call in this step.
Invokes(t) ==
    /\ InFlight(t)
    /\ visits'[t] # visits[t] \/ results'[t] # results[t]

\* C15 as stated: between DONE and the next user message of a thread nothing
\* is invoked for that thread, and the turn the next user message starts gives
\* the model every message appended to the thread before, in order, followed by
\* the new user message.
C15_Original ==
    [][\A t \in Slots :
          /\ Invokes(t) => ~AtDone(sess[t])
          /\ (~InFlight(t) /\ pc'[t] = "chat_node") => msgs'[t] = log'[sess'[t]]
      ]_vars

\* The call of an assistant message before position i that the tool message
\* at position i of m answers.
AnswersCall(m, i) ==
    \E j \in 1..(i - 1) :
        \E k \in DOMAIN m[j].calls :
            /\ m[j].calls[k].id = m[i].tool_call_id
            /\ m[j].calls[k].name = m[i].name

\* C16: a tool call that names a tool absent from the registry invokes
\* nothing and is answered by an error result carrying the call's id, and the
\* turn goes on to the model instead of failing: a turn past a tools step has
\* failed only on the recursion limit or on the model.
C16_UnknownToolRecovered ==
    \A t \in Slots :
        /\ pc[t] = "tools" =>
              \A i \in DOMAIN results[t] :
                  PendingCalls(t)[i].name \notin ToolNames(tools) =>
                      results[t][i] = "invalid_tool"
        /\ \A i \in DOMAIN msgs[t] :
              (msgs[t][i].role = "tool" /\ msgs[t][i].name \notin ToolNames(tools)) =>
                  /\ msgs[t][i].content = "invalid_tool"
                  /\ msgs[t][i].status = "error"
                  /\ AnswersCall(msgs[t], i)
        /\ (phases[t] >= 1 /\ Last(msgs[t]).role = "tool") =>
              \/ pc[t] = "chat_node"
              \/ pc[t] = "failed" /\ err[t] \in {"GraphRecursionError", "ModelUnavailable"}

\* The model asked for search_flights while the registry holds the local
\* tools only; the tools node has answered and the model is due again.
C16_Witness ==
    \E t \in Slots :
        /\ pc[t] = "chat_node"
        /\ phases[t] = 1
        /\ "search_flights" \notin ToolNames(tools)
        /\ Last(msgs[t]).name = "search_flights"
        /\ Last(msgs[t]).content = "invalid_tool"
        /\ store[sess[t]] = msgs[t]

\* C17 as stated: the registry never holds two tools under one name, and no
\* tool stands in the place of an earlier one of the same name.
C17_Original ==
    /\ \A i, j \in DOMAIN tools : tools[i] = tools[j] => i = j
    /\ \A i \in DOMAIN tools : ToolsByName(tools)[tools[i]] = i

\* The names of the tools run in the turn of slot t before position i of its
\* state, in order: the tool results of this turn that are not errors.
RECURSIVE ExecutedBefore(_, _)
ExecutedBefore(t, i) ==
    IF i <= Len(loaded[t]) + 1 THEN <<>>
    ELSE LET m == msgs[t][i - 1]
         IN IF m.role = "tool" /\ m.status = "success"
            THEN Append(ExecutedBefore(t, i - 1), m.name)
            ELSE ExecutedBefore(t, i - 1)

\* `sub` occurs in `full` as a subsequence.
RECURSIVE IsSubsequence(_, _)
IsSubsequence(sub, full) ==
    IF sub = <<>> THEN TRUE
    ELSE IF full = <<>> THEN FALSE
    ELSE IF Head(sub) = Head(full) THEN IsSubsequence(Tail(sub), Tail(full))
    ELSE IsSubsequence(sub, Tail(full))

\* C18 as stated: whenever build_itinerary has returned in a turn,
\* search_hotels, get_weather_forecast and search_tourism_destinations have
\* been executed before, in that order, by the turn or by build_itinerary.
C18_Original ==
    \A t \in Slots :
        \A i \in DOMAIN msgs[t] :
            (/\ i > Len(loaded[t])
             /\ msgs[t][i].role = "tool"
             /\ msgs[t][i].name = "build_itinerary"
             /\ msgs[t][i].status = "success") =>
                \E r \in Responses :
                    IsSubsequence(ItineraryTools,
                                  ExecutedBefore(t, i) \o BuildItinerary(r).executed)

\* The relevance score of a candidate for a location: 5 when the stripped,
\* lower-cased location occurs in the title, 5 when it occurs in the
\* suggestion title (letter case aside in both), 2 for an airport.
Relevance(item, location) ==
    LET q == Strip(Lower(location))
    IN (IF Contains(q, Lower(item.title)) THEN 5 ELSE 0)
       + (IF Contains(q, Lower(item.suggestionTitle)) THEN 5 ELSE 0)
       + (IF item.entityType = "AIRPORT" THEN 2 ELSE 0)

\* C19: get_airport_code returns None when the lookup response is unparseable
\* or its data list is empty; otherwise it returns the skyId of the candidate
\* that has the maximum relevance score and comes first, in response order,
\* among the candidates with that score.
C19_BestAirport ==
    airport.called =>
        LET data == airport.response.data
            loc == airport.location
        IN /\ airport.response.kind = "unparseable" => airport.code = None
           /\ (airport.response.kind = "json" /\ data = <<>>) => airport.code = None
           /\ (airport.response.kind = "json" /\ data # <<>>) =>
                 \E i \in DOMAIN data :
                     /\ airport.code = data[i].skyId
                     /\ \A j \in DOMAIN data : Relevance(data[j], loc) <= Relevance(data[i], loc)
                     /\ \A j \in 1..(i - 1) : Relevance(data[j], loc) < Relevance(data[i], loc)

\* A lookup with three candidates where the first scores lowest and the other
\* two tie on the maximum with different codes: the second one's code is
\* returned.
C19_Witness ==
    /\ airport.called
    /\ airport.response.kind = "json"
    /\ Len(airport.response.data) = 3
    /\ LET data == airport.response.data
           loc == airport.location
       IN /\ Relevance(data[1], loc) < Relevance(data[2], loc)
          /\ Relevance(data[2], loc) = Relevance(data[3], loc)
          /\ data[2].skyId # data[3].skyId
          /\ airport.code = data[2].skyId

====
